---- MODULE Spec2Model ----
(***************************************************************************)
(* Model of the command-execution and live-log core of feedback_ui.py:     *)
(* FeedbackUI._run_command, _check_process_status, _append_log,            *)
(* _apply_log_filter, _toggle_line_numbers, _submit_feedback, clear_logs,  *)
(* closeEvent, run, the read_output reader threads, the queued             *)
(* LogSignals.append_log signal and kill_tree.                             *)
(*                                                                         *)
(* Text is a sequence of tokens (strings).  The tokens " ", "\t" and "\n"  *)
(* are whitespace; every other token is a run of non-whitespace or fixed   *)
(* literal text.  str.rstrip and str.split are computed on that sequence.  *)
(***************************************************************************)
EXTENDS Integers, Sequences, FiniteSets, TLC

\* ------------------------------------------------------------------ bounds
MaxEvents == 5    \* user actions and child events in one session
MaxKids == 2      \* descendants of one spawned shell

\* --------------------------------------------------------------- constants
NoProcess == 0                    \* self.process = None
None == [none |-> TRUE]           \* self.feedback_result = None
SIGKILL == 9
SIGTERM == 15

Runs == 1..MaxEvents
Streams == {"stdout", "stderr"}
ExitCodes == {0}                  \* codes a child exits with on its own

\* command_entry.text(): empty, blank, and a real command
Commands == {<< >>, <<" ">>, <<"echo">>}
\* feedback_text.toPlainText()
FeedbackTexts == {<<"ok">>, <<" ", "ok", "\n">>}

VARIABLES
  phase,            \* "loop": exec() running, window open; "closing": closeEvent
                    \* has run, exec() not yet returned; "returned": run()
                    \* returned a FeedbackResult; "raised": run() raised
  process,          \* self.process: NoProcess or the run id of the Popen handle
  procs,            \* the operating system's view of every spawned run
  handed,           \* handed[r][s]: lines read_output of (r, s) emitted
  channel,          \* queued append_log signal deliveries, in emission order
  log_buffer,       \* self.log_buffer
  log_entries,      \* self.log_entries
  log_text,         \* self.log_text: the blocks shown in the console
  text_cursor,      \* self.log_text.textCursor()
  search_entry,     \* self.search_entry.text()
  search_result_label, \* self.search_result_label.text()
  log_level_filter, \* self.log_level_filter.currentText()
  show_line_numbers,\* self.show_line_numbers_check.isChecked()
  run_button,       \* self.run_button.text()
  status_timer,     \* TRUE once self.status_timer exists and is started
  feedback_result,  \* self.feedback_result
  result,           \* value run() returned, None before
  kill_calls,       \* runs kill_tree has been called on (history)
  kill_trace,       \* the last kill_tree call: the run, its tree before and
                    \* after, whether it raised, the kill() and terminate()
                    \* calls it made (history)
  invocation,       \* the call feedback_ui(.., output_file): whether it has
                    \* returned, its output_file, the value it returned
                    \* and what it wrote to the file
  command_templates,\* self.config["command_templates"]
  restores,         \* pending QTimer.singleShot restores of the run button:
                    \* the label each of them will set, in firing order
  exit_reports,     \* exit_reports[r]: exit-code lines appended for r (history)
  submit_seen,      \* handle and handed counts at the time of submit (history)
  ingested,         \* chunks given to _append_log since the last clear_logs
                    \* (history)
  events            \* user actions and child events so far (history)

vars == <<phase, process, procs, handed, channel, log_buffer,
          log_entries, log_text, text_cursor, search_entry,
          search_result_label, log_level_filter, show_line_numbers,
          run_button, status_timer, feedback_result, result,
          kill_calls,
          kill_trace,
          invocation, command_templates, restores,
          exit_reports, submit_seen, ingested, events>>

\* ------------------------------------------------------------ text helpers
IsSpace(t) == t \in {" ", "\t", "\n"}

RECURSIVE rstrip(_)
rstrip(s) ==
  IF s = << >> THEN s
  ELSE IF IsSpace(s[Len(s)]) THEN rstrip(SubSeq(s, 1, Len(s) - 1))
  ELSE s

RECURSIVE lstrip(_)
lstrip(s) ==
  IF s = << >> THEN s
  ELSE IF IsSpace(s[1]) THEN lstrip(Tail(s))
  ELSE s

strip_Right(s) == rstrip(s)

strip(s) == lstrip(rstrip(s))

RECURSIVE split_nl(_)
split_nl(s) ==
  IF \A i \in 1..Len(s) : s[i] # "\n" THEN <<s>>
  ELSE LET i == CHOOSE k \in 1..Len(s) :
                  s[k] = "\n" /\ \A j \in 1..(k - 1) : s[j] # "\n"
       IN <<SubSeq(s, 1, i - 1)>> \o split_nl(SubSeq(s, i + 1, Len(s)))

RECURSIVE join(_)
join(chunks) ==
  IF chunks = << >> THEN << >> ELSE Head(chunks) \o join(Tail(chunks))

\* --------------------------------------------------------- line classifier
ErrorWords == {"error", "ERROR", "Error", "failed", "FAILED", "Failed",
               "exception", "Exception", "EXCEPTION"}
WarningWords == {"warning", "WARNING", "Warning", "warn", "WARN", "Warn"}
SuccessWords == {"success", "SUCCESS", "Success", "passed", "PASSED",
                 "Passed", "completed", "COMPLETED", "Completed"}
InfoWords == {"info", "INFO", "Info", "note", "NOTE", "Note"}

HasWord(line, words) == \E i \in 1..Len(line) : line[i] \in words

detect_log_level_WarningFirst(line) ==
  IF HasWord(line, WarningWords) THEN "Warning"
  ELSE IF HasWord(line, ErrorWords) THEN "Error"
  ELSE IF HasWord(line, SuccessWords) THEN "Success"
  ELSE IF HasWord(line, InfoWords) THEN "Info"
  ELSE "Other"

detect_log_level(line) ==
  IF HasWord(line, ErrorWords) THEN "Error"
  ELSE IF HasWord(line, WarningWords) THEN "Warning"
  ELSE IF HasWord(line, SuccessWords) THEN "Success"
  ELSE IF HasWord(line, InfoWords) THEN "Info"
  ELSE "Other"

\* ------------------------------------------------------ highlight_log_line
\* Inside a line the regular expressions of highlight_log_line see more than
\* whole words, so the lines given to it are cut into pieces: a word, a run
\* of digits, ":", a scheme with its colon ("http:"), and the text from a
\* slash to the end of its word.  The pieces below are the ones the lines of
\* this model are made of; two pieces next to each other have no character
\* between them.
Digits == {"12", "34", "56", "42"}           \* \d+
TwoDigits == {t \in Digits : TRUE}           \* \d{2}: all of them have two
Schemes == {"http:", "https:"}               \* https?:
\* [/\\][\w/\\.-]+\.\w+ matches the whole piece: it starts with a slash and
\* ends in a dot and word characters
PathPieces == {"/tmp/a.txt", "//x.org/a.html"}
\* pieces that start with "//" and hold no white space
SlashPieces == {"//x.org/a.html", "//localhost/x"}
WordPieces ==
  {"see", "open", "took", "ms", "at", "plain", "out"} \cup Digits

\* the markup re.sub puts around a match
SpanOpen ==
  [path |-> "<span style=\"color: #1abc9c;\">",
   url |-> "<span style=\"color: #3498db; text-decoration: underline;\">",
   number |-> "<span style=\"color: #9b59b6;\">",
   time |-> "<span style=\"color: #95a5a6;\">"]
SpanClose == "</span>"
IsOpen(t) == \E kind \in DOMAIN SpanOpen : t = SpanOpen[kind]

\* line.replace('&', '&amp;').replace('<', '&lt;').replace('>', '&gt;')
html_escape(line) ==
  [i \in 1..Len(line) |->
     IF line[i] = "&" THEN "&amp;"
     ELSE IF line[i] = "<" THEN "&lt;"
     ELSE IF line[i] = ">" THEN "&gt;"
     ELSE line[i]]

\* re.sub(pattern, r'<span ...>\1</span>', s) for the matches that start at
\* the pieces of starts and end at the pieces of ends
RECURSIVE WrapFrom(_, _, _, _, _)
WrapFrom(s, i, starts, ends, kind) ==
  IF i > Len(s) THEN << >>
  ELSE (IF i \in starts THEN <<SpanOpen[kind]>> ELSE << >>)
       \o <<s[i]>>
       \o (IF i \in ends THEN <<SpanClose>> ELSE << >>)
       \o WrapFrom(s, i + 1, starts, ends, kind)

\* File paths (line 63)
sub_paths(s) ==
  LET at == {i \in 1..Len(s) : s[i] \in PathPieces}
  IN WrapFrom(s, 1, at, at, "path")

\* [^\s]: a piece with white space in it (the opening tag of a span has a
\* blank after "<span")
HasSpace(t) == IsSpace(t) \/ IsOpen(t)

\* URLs (line 66): https?:// and everything up to the next white space
sub_urls(s) ==
  LET starts == {i \in 1..(Len(s) - 1) :
                   s[i] \in Schemes /\ s[i + 1] \in SlashPieces}
      End(i) == CHOOSE j \in (i + 1)..Len(s) :
                  /\ \A m \in (i + 1)..j : ~HasSpace(s[m])
                  /\ j = Len(s) \/ HasSpace(s[j + 1])
  IN WrapFrom(s, 1, starts, {End(i) : i \in starts}, "url")

\* \b next to a run of digits: no word character on the other side
Boundary(s, i) == i \notin 1..Len(s) \/ s[i] \notin WordPieces

\* Numbers (line 69): \b(\d+)\b
sub_numbers(s) ==
  LET at == {i \in 1..Len(s) :
               s[i] \in Digits /\ Boundary(s, i - 1) /\ Boundary(s, i + 1)}
  IN WrapFrom(s, 1, at, at, "number")

\* Timestamps (line 72): \d{2}:\d{2}:\d{2}
sub_timestamps(s) ==
  LET starts == {i \in 1..(Len(s) - 4) :
                   /\ s[i] \in TwoDigits /\ s[i + 1] = ":"
                   /\ s[i + 2] \in TwoDigits /\ s[i + 3] = ":"
                   /\ s[i + 4] \in TwoDigits}
  IN WrapFrom(s, 1, starts, {i + 4 : i \in starts}, "time")

\* lines 62-74: the four substitutions, one on the result of the other
highlight_inner(line) ==
  CHOOSE html \in
    {sub_timestamps(c) :
       c \in {sub_numbers(b) :
                b \in {sub_urls(a) : a \in {sub_paths(line)}}}} : TRUE

\* highlight_log_line: a line of a level goes whole into a span of the
\* level's colour (colour); a line of no level gets the inner spans.  line
\* is the text of the line, markup the HTML inside the outer span, if any.
LevelColour ==
  [Error |-> "#e74c3c", Warning |-> "#f39c12", Success |-> "#2ecc71",
   Info |-> "#3498db", Other |-> "none"]
highlight_log_line(line) ==
  [colour |-> LevelColour[detect_log_level(line)], line |-> line,
   markup |-> CHOOSE html \in
                {IF detect_log_level(line) = "Other" THEN highlight_inner(e)
                 ELSE e : e \in {html_escape(line)}} : TRUE]

\* ------------------------------------------------------------ text cursor
\* The cursor of the console: block is the block it stands in (0: before
\* the first block); selected tells that it holds the match of a find in
\* that block, otherwise it stands at the end of the block.
CursorStart == [block |-> 0, selected |-> FALSE]
CursorEnd(text) == [block |-> Len(text), selected |-> FALSE]

\* --------------------------------------------------------------- log store
Filters == {"All", "Error", "Warning", "Success", "Info"}

LogState ==
  [buffer |-> log_buffer, entries |-> log_entries, text |-> log_text,
   ingested |-> ingested]

Passes_LevelOnly(level, current_filter) ==
  current_filter = "All" \/ level = current_filter

\* the negation of the test that skips a line (lines 1141, 1166)
Passes(level, current_filter) ==
  current_filter = "All" \/ level = current_filter \/ level = "Other"

\* line_prefix + highlighted; prefix 0 stands for no line number
Block(e, show) ==
  [prefix |-> IF show THEN e.line_number ELSE 0,
   html |-> highlight_log_line(e.line)]

\* the blocks appended to log_text for the given entries, in order
render(entries, current_filter, show) ==
  LET shown == SelectSeq(entries,
                         LAMBDA e : Passes(e.level, current_filter)) IN
  [i \in 1..Len(shown) |-> Block(shown[i], show)]

next_line_number_FromZero(len) == len

\* line_number = len(self.log_entries) + 1, for len stored entries
next_line_number(len) == len + 1

\* the loop over the lines of a chunk: line i is stored when the entries
\* given and the i - 1 lines before it are in the list
store_lines(entries, lines) ==
  entries \o
    [i \in 1..Len(lines) |->
       [line |-> lines[i],
        level |-> detect_log_level(lines[i]),
        line_number |-> next_line_number(Len(entries) + i - 1)]]

\* _append_log(text) applied to the log state st
\* (lines: text.rstrip().split('\n'); entries: self.log_entries when the
\* loop over the lines has ended)
append_log(st, text) ==
  CHOOSE new \in
    {[buffer |-> Append(st.buffer, text),
      entries |-> entries,
      text |-> st.text \o render(SubSeq(entries, Len(st.entries) + 1,
                                        Len(entries)),
                                 log_level_filter, show_line_numbers),
      ingested |-> Append(st.ingested, text)] :
     entries \in {store_lines(st.entries, lines) :
                    lines \in {split_nl(rstrip(text))}}} : TRUE

reset_buffer_Keep(st) == st

\* self.log_buffer = []
reset_buffer(st) == [st EXCEPT !.buffer = << >>]

SetLog(st) ==
  /\ log_buffer' = st.buffer
  /\ log_entries' = st.entries
  /\ log_text' = st.text
  /\ text_cursor' = CursorEnd(st.text)
  /\ ingested' = st.ingested

\* ----------------------------------------------------------- fixed texts
PleaseEnter == <<"Please enter a command to run", "\n">>
DollarLine_Bare(command) == command \o <<"\n">>
DollarLine(command) == <<"$", " ">> \o command \o <<"\n">>
SpawnMessage == "[Errno 2] No such file or directory"
ErrorRunning(msg) == <<"Error", " ", "running command:", " ", msg, "\n">>
ExitedLine(code) ==
  <<"\n", "Process exited with code", " ", ToString(code), "\n">>
\* the i-th line the child of run r writes to pipe s
ChildLine(r, s, i) == <<"out", ToString(r), s, ToString(i), "\n">>

\* ------------------------------------------------------------ process tree
\* One spawned run: the shell started by Popen (root) and its descendants
\* (kids, in the order parent.children(recursive=True) lists them).  root is
\* "none" (never spawned), "running", "exited" (returncode not yet collected
\* by poll) or "reaped"; a descendant is "running" or "dead".  command is the
\* command line given to Popen; cmd_line is the line number the
\* "$ <command>" line of the run was stored under (history).
NoProc ==
  [root |-> "none", code |-> 0, kids |-> << >>, command |-> << >>,
   cmd_line |-> 0]

\* the Popen handle itself in a list of psutil processes
Root == 0

\* What the operating system answers during one kill_tree call.  A root that
\* has exited and whose returncode poll() has not collected is found by
\* psutil on POSIX (a zombie) and not found on Windows, where psutil tests
\* the exit code of the process: exists covers both.
KillOutcomes ==
  [exists : BOOLEAN,      \* psutil.Process(pid) finds an exited, unreaped root
   kid_kill : [1..MaxKids -> BOOLEAN], \* proc.kill() on descendant i succeeds
   root_kill : BOOLEAN,   \* parent.kill() succeeds
   root_term : BOOLEAN]   \* parent.terminate() succeeds

\* Environments.  env.kids: the descendants a spawned shell may start;
\* env.kills: the answers kill_tree may get.
AllKillsWork ==
  {o \in KillOutcomes :
     /\ \A i \in 1..MaxKids : o.kid_kill[i]
     /\ o.root_kill
     /\ o.root_term}
PlainEnv == [kids |-> {<< >>}, kills |-> AllKillsWork]
TreeEnv ==
  [kids |-> {<< >>, [i \in 1..MaxKids |-> "running"]}, kills |-> KillOutcomes]

\* psutil.Process(process.pid): NoSuchProcess unless the pid is found
PidFound(p, o) ==
  \/ p.root = "running"
  \/ p.root = "exited" /\ o.exists

\* parent.children(recursive=True): the live descendants of a live root, in
\* order (the descendants of a root that has exited have another parent)
children(p) ==
  IF p.root = "running"
  THEN SelectSeq([i \in 1..Len(p.kids) |-> i],
                 LAMBDA i : p.kids[i] = "running")
  ELSE << >>

\* kill_tree at its first statement: k.p the tree, k.killed the list killed,
\* k.attempts the kill() and terminate() calls made so far with their
\* outcome (history)
KillStart(p) == [p |-> p, killed |-> << >>, attempts |-> << >>]

Attempt(op, target, ok) == [op |-> op, target |-> target, ok |-> ok]

KillChildren_StopAtFailure(k, o) ==
  LET todo == children(k.p)
      fails == {n \in 1..Len(todo) : ~o.kid_kill[todo[n]]}
      done == IF fails = {} THEN todo
              ELSE SubSeq(todo, 1, CHOOSE n \in fails : \A m \in fails : n <= m)
  IN [p |-> [k.p EXCEPT !.kids =
                [i \in 1..Len(k.p.kids) |->
                   IF (\E n \in 1..Len(done) : done[n] = i) /\ o.kid_kill[i]
                   THEN "dead" ELSE k.p.kids[i]]],
      killed |-> k.killed \o SelectSeq(done, LAMBDA i : o.kid_kill[i]),
      attempts |-> k.attempts \o
        [n \in 1..Len(done) |-> Attempt("kill", done[n], o.kid_kill[done[n]])]]

\* first loop (lines 250-255): kill() on every enumerated descendant; the
\* ones whose kill() did not raise are appended to killed
KillChildren(k, o) ==
  LET todo == children(k.p)
  IN [p |-> [k.p EXCEPT !.kids =
                [i \in 1..Len(k.p.kids) |->
                   IF (\E n \in 1..Len(todo) : todo[n] = i) /\ o.kid_kill[i]
                   THEN "dead" ELSE k.p.kids[i]]],
      killed |-> k.killed \o SelectSeq(todo, LAMBDA i : o.kid_kill[i]),
      attempts |-> k.attempts \o
        [n \in 1..Len(todo) |-> Attempt("kill", todo[n], o.kid_kill[todo[n]])]]

\* parent.kill(); killed.append(parent) (lines 256-260)
KillParent(k, o) ==
  LET ok == k.p.root = "running" /\ o.root_kill
  IN [p |-> IF ok THEN [k.p EXCEPT !.root = "exited", !.code = 0 - SIGKILL]
            ELSE k.p,
      killed |-> Append(k.killed, Root),
      attempts |-> Append(k.attempts, Attempt("kill", Root, ok))]

\* proc.is_running() for a process of the list killed
is_running(p, target) ==
  IF target = Root THEN p.root = "running" ELSE p.kids[target] = "running"

\* second loop (lines 262-268): terminate() whatever of the list killed is
\* still running.  The list holds the descendants whose kill() succeeded
\* (no longer running) and the parent.
TerminateRemaining(k, o) ==
  LET todo == SelectSeq(k.killed, LAMBDA t : is_running(k.p, t))
      ok == k.p.root = "running" /\ o.root_term
  IN [p |-> IF ok THEN [k.p EXCEPT !.root = "exited", !.code = 0 - SIGTERM]
            ELSE k.p,
      killed |-> k.killed,
      attempts |-> k.attempts \o
        [n \in 1..Len(todo) |->
           Attempt("terminate", todo[n], todo[n] = Root /\ ok)]]

kill_tree(p, o) ==
  IF ~PidFound(p, o)
  THEN [raised |-> TRUE, p |-> p, attempts |-> << >>]
  ELSE LET k == TerminateRemaining(KillParent(KillChildren(KillStart(p), o),
                                              o), o)
       IN [raised |-> FALSE, p |-> k.p, attempts |-> k.attempts]

\* what kill_trace holds of the call kill_tree(p, o) = k on run r
KillTrace(r, p, k) ==
  [run |-> r, before |-> p, after |-> k.p, raised |-> k.raised,
   attempts |-> k.attempts]

NoKill ==
  [run |-> NoProcess, before |-> NoProc, after |-> NoProc, raised |-> FALSE,
   attempts |-> << >>]

\* feedback_ui has not returned
NotReturned ==
  [done |-> FALSE, output_file |-> None, returned |-> None, written |-> None]

\* ------------------------------------------------------------------- state
Init ==
  /\ phase = "loop"
  /\ process = NoProcess
  /\ procs = [r \in Runs |-> NoProc]
  /\ handed = [r \in Runs |-> [s \in Streams |-> 0]]
  /\ channel = << >>
  /\ log_buffer = << >>
  /\ log_entries = << >>
  /\ log_text = << >>
  /\ text_cursor = CursorStart
  /\ search_entry = ""
  /\ search_result_label = ""
  /\ log_level_filter = "All"
  /\ show_line_numbers = FALSE
  /\ ingested = << >>
  /\ run_button = "&Run (Ctrl+R / F5)"
  /\ status_timer = FALSE
  /\ feedback_result = None
  /\ result = None
  /\ kill_calls = {}
  /\ kill_trace = NoKill
  /\ invocation = NotReturned
  /\ command_templates = << >>
  /\ restores = << >>
  /\ exit_reports = [r \in Runs |-> 0]
  /\ submit_seen = [run |-> NoProcess, handed |-> [s \in Streams |-> 0]]
  /\ events = 0

Spawned == {r \in Runs : procs[r].root # "none"}
NextRun == Cardinality(Spawned) + 1

\* what the user set in the filter row of the console
ViewSettings == <<log_level_filter, show_line_numbers>>

\* the search row of the console
SearchBar == <<search_entry, search_result_label>>

\* the event loop dispatches timer events and queued signals
Dispatching == phase \in {"loop", "closing"}

\* one more user action or child event
Event == events < MaxEvents /\ events' = events + 1

\* ----------------------------------------------------------- _run_command
\* self.process is set (lines 1184, 1363, 1371)
HoldsProcess == process # NoProcess

Running_Never == FALSE

\* if self.process: (line 1194)
Running == process # NoProcess

NotCommand_Never(command) == FALSE

\* if not command:
NotCommand(command) == command = << >>

\* lines 1194-1198: the trigger stops the current run and returns
StopRun(env) ==
  \E o \in env.kills :
    LET k == kill_tree(procs[process], o) IN
    /\ kill_calls' = kill_calls \cup {process}
    /\ UNCHANGED <<invocation, command_templates, restores>>
    /\ kill_trace' = KillTrace(process, procs[process], k)
    /\ IF k.raised
       THEN UNCHANGED <<process, procs, run_button>>
       ELSE /\ procs' = [procs EXCEPT ![process] = k.p]
            /\ process' = NoProcess
            /\ run_button' = "&Run"
    /\ UNCHANGED <<phase, handed, channel, log_buffer, log_entries, log_text,
                   text_cursor,
                   ingested,
                   status_timer, feedback_result, result, exit_reports,
                   submit_seen>>

\* lines 1200-1206: nothing to run
RejectEmpty ==
  /\ SetLog(append_log(reset_buffer(LogState), PleaseEnter))
  /\ UNCHANGED <<phase, process, procs, handed, channel, run_button,
                 status_timer, feedback_result, result, kill_calls,
                 kill_trace, invocation,
                 command_templates, restores,
                 exit_reports, submit_seen>>

\* lines 1208-1245: Popen succeeds
SpawnOk(command, env) ==
  /\ NextRun \in Runs
  /\ \E kids \in env.kids :
       procs' = [procs EXCEPT ![NextRun] =
                   [root |-> "running", code |-> 0, kids |-> kids,
                    command |-> command,
                    cmd_line |-> Len(log_entries) + 1]]
  /\ SetLog(append_log(reset_buffer(LogState), DollarLine(command)))
  /\ process' = NextRun
  /\ run_button' = "Sto&p"
  /\ status_timer' = TRUE
  /\ UNCHANGED <<phase, handed, channel, feedback_result, result,
                 kill_calls, kill_trace,
                 invocation, command_templates, restores,
                 exit_reports, submit_seen>>

SpawnFails_Silent(command) ==
  /\ SetLog(append_log(reset_buffer(LogState), DollarLine(command)))
  /\ run_button' = "&Run"
  /\ UNCHANGED <<phase, process, procs, handed, channel,
                 status_timer, feedback_result, result, kill_calls,
                 kill_trace, invocation,
                 command_templates, restores,
                 exit_reports, submit_seen>>

\* lines 1208-1212, 1247-1249: Popen raises
SpawnFails(command) ==
  /\ SetLog(append_log(append_log(reset_buffer(LogState), DollarLine(command)),
                       ErrorRunning(SpawnMessage)))
  /\ run_button' = "&Run"
  /\ UNCHANGED <<phase, process, procs, handed, channel,
                 status_timer, feedback_result, result, kill_calls,
                 kill_trace, invocation,
                 command_templates, restores,
                 exit_reports, submit_seen>>

_run_command(command, env) ==
  /\ phase = "loop"
  /\ UNCHANGED ViewSettings
  /\ UNCHANGED SearchBar
  /\ Event
  /\ IF Running THEN StopRun(env)
     ELSE IF NotCommand(command) THEN RejectEmpty
     ELSE SpawnOk(command, env) \/ SpawnFails(command)

\* ------------------------------------------------- child and reader threads
\* the child of run r exits on its own
ChildExit(r, code) ==
  /\ Dispatching
  /\ UNCHANGED ViewSettings
  /\ UNCHANGED SearchBar
  /\ Event
  /\ procs[r].root = "running"
  /\ procs' = [procs EXCEPT ![r].root = "exited", ![r].code = code]
  /\ UNCHANGED <<phase, process, handed, channel, log_buffer,
                 log_entries, log_text, text_cursor, ingested, run_button,
                 status_timer, feedback_result,
                 result, kill_calls, kill_trace,
                 invocation, command_templates, restores,
                 exit_reports, submit_seen>>

\* descendant i of run r exits on its own
KidExit(r, i) ==
  /\ Dispatching
  /\ UNCHANGED ViewSettings
  /\ UNCHANGED SearchBar
  /\ Event
  /\ i \in 1..Len(procs[r].kids)
  /\ procs[r].kids[i] = "running"
  /\ procs' = [procs EXCEPT ![r].kids[i] = "dead"]
  /\ UNCHANGED <<phase, process, handed, channel, log_buffer,
                 log_entries, log_text, text_cursor, ingested, run_button,
                 status_timer, feedback_result,
                 result, kill_calls, kill_trace,
                 invocation, command_templates, restores,
                 exit_reports, submit_seen>>

read_output_Direct(r, s) ==
  /\ Dispatching
  /\ UNCHANGED ViewSettings
  /\ UNCHANGED SearchBar
  /\ Event
  /\ procs[r].root = "running"
  /\ SetLog(append_log(LogState, ChildLine(r, s, handed[r][s] + 1)))
  /\ handed' = [handed EXCEPT ![r][s] = @ + 1]
  /\ UNCHANGED <<phase, process, procs, channel,
                 run_button, status_timer, feedback_result, result,
                 kill_calls, kill_trace,
                 invocation, command_templates, restores,
                 exit_reports, submit_seen>>

\* read_output: the child of run r writes its next line to pipe s,
\* pipe.readline() returns it, append_log.emit(line)
read_output(r, s) ==
  /\ Dispatching
  /\ UNCHANGED ViewSettings
  /\ UNCHANGED SearchBar
  /\ Event
  /\ procs[r].root = "running"
  /\ channel' = Append(channel, ChildLine(r, s, handed[r][s] + 1))
  /\ handed' = [handed EXCEPT ![r][s] = @ + 1]
  /\ UNCHANGED <<phase, process, procs, log_buffer, log_entries, log_text,
                 text_cursor,
                 ingested,
                 run_button, status_timer, feedback_result, result,
                 kill_calls, kill_trace,
                 invocation, command_templates, restores,
                 exit_reports, submit_seen>>

_append_log_Lifo ==
  /\ Dispatching
  /\ UNCHANGED ViewSettings
  /\ UNCHANGED SearchBar
  /\ channel # << >>
  /\ SetLog(append_log(LogState, channel[Len(channel)]))
  /\ channel' = SubSeq(channel, 1, Len(channel) - 1)
  /\ UNCHANGED <<phase, process, procs, handed, run_button,
                 status_timer, feedback_result, result, kill_calls,
                 kill_trace, invocation,
                 command_templates, restores,
                 exit_reports, submit_seen, events>>

\* the queued append_log signal reaches its slot, _append_log(text)
_append_log ==
  /\ Dispatching
  /\ UNCHANGED ViewSettings
  /\ UNCHANGED SearchBar
  /\ channel # << >>
  /\ SetLog(append_log(LogState, Head(channel)))
  /\ channel' = Tail(channel)
  /\ UNCHANGED <<phase, process, procs, handed, run_button,
                 status_timer, feedback_result, result, kill_calls,
                 kill_trace, invocation,
                 command_templates, restores,
                 exit_reports, submit_seen, events>>

\* ------------------------------------------------- _check_process_status
PollExited_Inverted == HoldsProcess /\ procs[process].root = "running"

\* self.process and self.process.poll() is not None
PollExited == HoldsProcess /\ procs[process].root = "exited"

\* exit_code = self.process.poll(): collects the returncode
Reap(p) == [p EXCEPT !.root = IF @ = "exited" THEN "reaped" ELSE @]

_check_process_status ==
  /\ Dispatching
  /\ UNCHANGED ViewSettings
  /\ UNCHANGED SearchBar
  /\ status_timer
  /\ IF PollExited
     THEN /\ SetLog(append_log(LogState, ExitedLine(procs[process].code)))
          /\ run_button' = "&Run"
          /\ procs' = [procs EXCEPT ![process] = Reap(@)]
          /\ exit_reports' = [exit_reports EXCEPT ![process] = @ + 1]
          /\ process' = NoProcess
     ELSE UNCHANGED <<log_buffer, log_entries, log_text, text_cursor,
                      ingested, run_button,
                      procs,
                      exit_reports, process>>
  /\ UNCHANGED <<phase, handed, channel, status_timer,
                 feedback_result, result, kill_calls,
                 kill_trace, invocation,
                 command_templates, restores, submit_seen, events>>

\* ------------------------------------------------------- end of the session
closeEvent_body_NoKill(env) ==
  /\ UNCHANGED <<procs, kill_calls, kill_trace>>
  /\ phase' = "closing"

\* closeEvent: lines 1363-1365.  An exception of kill_tree does not stop the
\* window from closing.
closeEvent_body(env) ==
  /\ IF HoldsProcess
     THEN \E o \in env.kills :
            LET k == kill_tree(procs[process], o) IN
            /\ procs' = [procs EXCEPT ![process] = k.p]
            /\ kill_calls' = kill_calls \cup {process}
            /\ kill_trace' = KillTrace(process, procs[process], k)
     ELSE UNCHANGED <<procs, kill_calls, kill_trace>>
  /\ phase' = "closing"

FeedbackResult(logs, user_feedback) ==
  [logs |-> logs, user_feedback |-> user_feedback]

_submit_feedback(text, env) ==
  /\ phase = "loop"
  /\ UNCHANGED ViewSettings
  /\ UNCHANGED SearchBar
  /\ UNCHANGED <<invocation, command_templates, restores>>
  /\ Event
  /\ feedback_result' = FeedbackResult(join(log_buffer), strip(text))
  /\ submit_seen' = [run |-> process,
                     handed |-> IF HoldsProcess THEN handed[process]
                                ELSE [s \in Streams |-> 0]]
  /\ closeEvent_body(env)
  /\ UNCHANGED <<process, handed, channel, log_buffer, log_entries, log_text,
                 text_cursor,
                 ingested,
                 run_button, status_timer, result, exit_reports>>

\* the user closes the window
closeEvent(env) ==
  /\ phase = "loop"
  /\ UNCHANGED ViewSettings
  /\ UNCHANGED SearchBar
  /\ UNCHANGED <<invocation, command_templates, restores>>
  /\ Event
  /\ closeEvent_body(env)
  /\ UNCHANGED <<process, handed, channel, log_buffer, log_entries, log_text,
                 text_cursor,
                 ingested,
                 run_button, status_timer, feedback_result, result,
                 exit_reports, submit_seen>>

run_result_EmptyLogs ==
  IF feedback_result = None
  THEN FeedbackResult(<< >>, << >>)
  ELSE feedback_result

run_result_Rebuilt ==
  FeedbackResult(join(log_buffer),
                 IF feedback_result = None THEN << >>
                 ELSE feedback_result.user_feedback)

\* what run() returns: lines 1374-1377
run_result ==
  IF feedback_result = None
  THEN FeedbackResult(join(log_buffer), << >>)
  ELSE feedback_result

\* run(), after QApplication.exec() returned: lines 1371-1377
run(env) ==
  /\ phase = "closing"
  /\ UNCHANGED ViewSettings
  /\ UNCHANGED SearchBar
  /\ UNCHANGED <<invocation, command_templates, restores>>
  /\ IF HoldsProcess
     THEN \E o \in env.kills :
            LET k == kill_tree(procs[process], o) IN
            /\ procs' = [procs EXCEPT ![process] = k.p]
            /\ kill_calls' = kill_calls \cup {process}
            /\ kill_trace' = KillTrace(process, procs[process], k)
            /\ phase' = IF k.raised THEN "raised" ELSE "returned"
            /\ result' = IF k.raised THEN None ELSE run_result
     ELSE /\ phase' = "returned"
          /\ result' = run_result
          /\ UNCHANGED <<procs, kill_calls, kill_trace>>
  /\ UNCHANGED <<process, handed, channel, log_buffer, log_entries, log_text,
                 text_cursor,
                 ingested,
                 run_button, status_timer, feedback_result, exit_reports,
                 submit_seen, events>>

\* ------------------------------------------------------------- feedback_ui
\* output_file: Optional[str]
OutputFiles == {None, [path |-> ""], [path |-> "out.json"]}

\* "if output_file": neither None nor the empty string
IsSet(output_file) == output_file # None /\ output_file.path # ""

\* "and result": a dict is true when it has a key
NonEmpty(d) == d # None /\ DOMAIN d # {}

\* json.dump of a str: the text between quotes, control characters escaped
json_escape(t) ==
  IF t = "\n" THEN "\\n" ELSE IF t = "\t" THEN "\\t" ELSE t
json_str(s) == <<"\"">> \o [i \in 1..Len(s) |-> json_escape(s[i])] \o <<"\"">>

\* json.dump(result, f): an object with the keys of the dict
json_dump(d) == [key \in DOMAIN d |-> json_str(d[key])]

Returned(output_file, returned, written) ==
  [done |-> TRUE, output_file |-> output_file, returned |-> returned,
   written |-> written]

feedback_ui_AlsoReturns(output_file) ==
  /\ phase = "returned"
  /\ ~invocation.done
  /\ invocation' =
       IF IsSet(output_file) /\ NonEmpty(result)
       THEN Returned(output_file, result, json_dump(result))
       ELSE Returned(output_file, result, None)
  /\ UNCHANGED <<phase, process, procs, handed, channel, log_buffer,
                 log_entries, log_text, text_cursor, search_entry,
                 search_result_label, log_level_filter, show_line_numbers,
                 run_button, status_timer, feedback_result, result,
                 kill_calls, kill_trace, exit_reports, submit_seen,
                 ingested, events, command_templates, restores>>

\* feedback_ui after ui.run() returned: lines 1384-1394
feedback_ui(output_file) ==
  /\ phase = "returned"
  /\ ~invocation.done
  /\ invocation' =
       IF IsSet(output_file) /\ NonEmpty(result)
       THEN Returned(output_file, None, json_dump(result))
       ELSE Returned(output_file, result, None)
  /\ UNCHANGED <<phase, process, procs, handed, channel, log_buffer,
                 log_entries, log_text, text_cursor, search_entry,
                 search_result_label, log_level_filter, show_line_numbers,
                 run_button, status_timer, feedback_result, result,
                 kill_calls, kill_trace, exit_reports, submit_seen,
                 ingested, events, command_templates, restores>>

\* ----------------------------------------------------------- _save_template
SavedLabel == "Saved!"    \* the check mark and "Saved!"

InTemplates(command) ==
  \E i \in 1..Len(command_templates) : command_templates[i] = command

\* _save_template with the given text in the command box: lines 1003-1018
_save_template(text) ==
  /\ phase = "loop"
  /\ UNCHANGED ViewSettings
  /\ UNCHANGED SearchBar
  /\ Event
  /\ LET command == strip(text) IN
     IF command = << >> \/ InTemplates(command)
     THEN UNCHANGED <<command_templates, run_button, restores>>
     ELSE /\ command_templates' = Append(command_templates, command)
          /\ restores' = Append(restores, run_button)
          /\ run_button' = SavedLabel
  /\ UNCHANGED <<phase, process, procs, handed, channel, log_buffer,
                 log_entries, log_text, text_cursor, status_timer,
                 feedback_result, result, kill_calls, kill_trace,
                 invocation, exit_reports, submit_seen, ingested>>

\* 1500 ms later: lambda: self.run_button.setText(original_text)
restore_label ==
  /\ Dispatching
  /\ UNCHANGED ViewSettings
  /\ UNCHANGED SearchBar
  /\ restores # << >>
  /\ run_button' = Head(restores)
  /\ restores' = Tail(restores)
  /\ UNCHANGED <<phase, process, procs, handed, channel, log_buffer,
                 log_entries, log_text, text_cursor, status_timer,
                 feedback_result, result, kill_calls, kill_trace,
                 invocation, exit_reports, submit_seen, ingested, events,
                 command_templates>>

clear_logs_DropsQueue ==
  /\ phase = "loop"
  /\ UNCHANGED ViewSettings
  /\ UNCHANGED SearchBar
  /\ Event
  /\ log_buffer' = << >>
  /\ log_text' = << >>
  /\ text_cursor' = CursorStart
  /\ ingested' = << >>
  /\ channel' = << >>
  /\ UNCHANGED <<phase, process, procs, handed, log_entries, run_button,
                 status_timer, feedback_result, result, kill_calls,
                 kill_trace, invocation,
                 command_templates, restores,
                 exit_reports, submit_seen>>

\* clear_logs: lines 1352-1354
clear_logs ==
  /\ phase = "loop"
  /\ UNCHANGED ViewSettings
  /\ UNCHANGED SearchBar
  /\ Event
  /\ log_buffer' = << >>
  /\ log_text' = << >>
  /\ text_cursor' = CursorStart
  /\ ingested' = << >>
  /\ UNCHANGED <<phase, process, procs, handed, channel,
                 log_entries, run_button, status_timer, feedback_result,
                 result, kill_calls, kill_trace,
                 invocation, command_templates, restores,
                 exit_reports, submit_seen>>

apply_log_filter_NoClear(current_filter, show) ==
  /\ log_text' = log_text \o render(log_entries, current_filter, show)
  /\ text_cursor' = CursorEnd(log_text')

\* ------------------------------------------------------------ console view
\* _apply_log_filter: the console redrawn from log_entries under the given
\* filter and line-number setting
apply_log_filter(current_filter, show) ==
  /\ log_text' = render(log_entries, current_filter, show)
  /\ text_cursor' = CursorEnd(log_text')

\* the user picks another level in the filter box: currentTextChanged
set_log_level_filter(level) ==
  /\ phase = "loop"
  /\ UNCHANGED SearchBar
  /\ Event
  /\ level # log_level_filter
  /\ log_level_filter' = level
  /\ apply_log_filter(level, show_line_numbers)
  /\ UNCHANGED <<phase, process, procs, handed, channel, log_buffer,
                 log_entries, show_line_numbers, run_button, status_timer,
                 feedback_result, result, kill_calls,
                 kill_trace, invocation,
                 command_templates, restores, exit_reports,
                 submit_seen, ingested>>

\* the user ticks or unticks "Line #": stateChanged
_toggle_line_numbers ==
  /\ phase = "loop"
  /\ UNCHANGED SearchBar
  /\ Event
  /\ show_line_numbers' = ~show_line_numbers
  /\ apply_log_filter(log_level_filter, ~show_line_numbers)
  /\ UNCHANGED <<phase, process, procs, handed, channel, log_buffer,
                 log_entries, log_level_filter, run_button, status_timer,
                 feedback_result, result, kill_calls,
                 kill_trace, invocation,
                 command_templates, restores, exit_reports,
                 submit_seen, ingested>>

\* ------------------------------------------------------------------ search
\* what the user types into the search box
SearchTexts == {"ERROR", "warning"}

\* QTextEdit.find ignores letter case unless told otherwise: the lower-case
\* form of the tokens of this model
casefold(t) ==
  IF t \in {"ERROR", "Error", "ErRoR"} THEN "error"
  ELSE IF t \in {"FAILED", "Failed"} THEN "failed"
  ELSE IF t \in {"EXCEPTION", "Exception"} THEN "exception"
  ELSE IF t \in {"WARNING", "Warning"} THEN "warning"
  ELSE t

\* the text of a block as the document holds it: the line number, if
\* shown, and the tokens of the line
BlockText(block) ==
  (IF block.prefix = 0 THEN << >> ELSE <<ToString(block.prefix), " | ">>)
    \o block.html.line

\* the block holds an occurrence of the search text
Matches(block, search_text) ==
  \E i \in 1..Len(BlockText(block)) :
    casefold(BlockText(block)[i]) = casefold(search_text)

\* self.log_text.find(search_text): the first occurrence after the cursor;
\* the cursor selects it, and stays where it is when there is none
find(text, cursor, search_text) ==
  LET hits == {k \in 1..Len(text) :
                 k > cursor.block /\ Matches(text[k], search_text)} IN
  IF hits = {} THEN [found |-> FALSE, cursor |-> cursor]
  ELSE [found |-> TRUE,
        cursor |-> [block |-> CHOOSE k \in hits : \A h \in hits : k <= h,
                    selected |-> TRUE]]

\* self.log_text.find(search_text, QTextDocument.FindBackward): the last
\* occurrence before the cursor, or before the match it selects
find_backward(text, cursor, search_text) ==
  LET hits == {k \in 1..Len(text) :
                 /\ IF cursor.selected THEN k < cursor.block
                    ELSE k <= cursor.block
                 /\ Matches(text[k], search_text)} IN
  IF hits = {} THEN [found |-> FALSE, cursor |-> cursor]
  ELSE [found |-> TRUE,
        cursor |-> [block |-> CHOOSE k \in hits : \A h \in hits : k >= h,
                    selected |-> TRUE]]

search_next_FromCursorOnly(cursor, search_text) ==
  LET first == find(log_text, cursor, search_text) IN
  [label |-> IF first.found THEN "found" ELSE "Not found",
   cursor |-> first.cursor]

\* _search_next from the given cursor, lines 1285-1297.  The labels "found"
\* and "found (wrapped)" stand for the check mark and "check mark (wrapped)"
search_next(cursor, search_text) ==
  LET first == find(log_text, cursor, search_text)
      again == find(log_text, CursorStart, search_text) IN
  IF first.found THEN [label |-> "found", cursor |-> first.cursor]
  ELSE IF again.found
       THEN [label |-> "found (wrapped)", cursor |-> again.cursor]
       ELSE [label |-> "Not found", cursor |-> again.cursor]

\* _search_prev, lines 1307-1319
search_prev(cursor, search_text) ==
  LET first == find_backward(log_text, cursor, search_text)
      again == find_backward(log_text, CursorEnd(log_text), search_text) IN
  IF first.found THEN [label |-> "found", cursor |-> first.cursor]
  ELSE IF again.found
       THEN [label |-> "found (wrapped)", cursor |-> again.cursor]
       ELSE [label |-> "Not found", cursor |-> again.cursor]

\* nothing but the search row and the cursor changes
SearchFrame ==
  UNCHANGED <<phase, process, procs, handed, channel, log_buffer,
              log_entries, log_text, log_level_filter, show_line_numbers,
              run_button, status_timer, feedback_result, result,
              kill_calls, kill_trace,
              invocation, command_templates, restores,
              exit_reports, submit_seen, ingested>>

\* the user presses Return in the search box or clicks the next button
_search_next ==
  /\ phase = "loop"
  /\ Event
  /\ IF search_entry = ""
     THEN UNCHANGED <<text_cursor, search_result_label>>
     ELSE /\ text_cursor' = search_next(text_cursor, search_entry).cursor
          /\ search_result_label' =
               search_next(text_cursor, search_entry).label
  /\ UNCHANGED search_entry
  /\ SearchFrame

\* the user clicks the previous button
_search_prev ==
  /\ phase = "loop"
  /\ Event
  /\ IF search_entry = ""
     THEN UNCHANGED <<text_cursor, search_result_label>>
     ELSE /\ text_cursor' = search_prev(text_cursor, search_entry).cursor
          /\ search_result_label' =
               search_prev(text_cursor, search_entry).label
  /\ UNCHANGED search_entry
  /\ SearchFrame

\* the user edits the search box: textChanged, _search_logs, which moves the
\* cursor to the start and calls _search_next
_search_logs(search_text) ==
  /\ phase = "loop"
  /\ Event
  /\ search_text # search_entry
  /\ search_entry' = search_text
  /\ IF search_text = ""
     THEN /\ search_result_label' = ""
          /\ UNCHANGED text_cursor
     ELSE /\ text_cursor' = search_next(CursorStart, search_text).cursor
          /\ search_result_label' =
               search_next(CursorStart, search_text).label
  /\ SearchFrame

\* chunks _append_log is called with: a plain line, a line that ends in a
\* blank, a chunk of several lines with a blank line inside, a line with no
\* terminator
Chunks ==
  {<<"out", "\n">>,
   <<"error", " ", "\n">>,
   <<"warning", "\n", "\n", "note", "\n">>,
   <<"passed">>}

\* _append_log called with the given text
append_text(text) ==
  /\ Dispatching
  /\ Event
  /\ SetLog(append_log(LogState, text))
  /\ UNCHANGED <<phase, process, procs, handed, channel, run_button,
                 status_timer, feedback_result, result, kill_calls,
                 kill_trace, invocation,
                 command_templates, restores,
                 exit_reports, submit_seen>>
  /\ UNCHANGED ViewSettings
  /\ UNCHANGED SearchBar

NextIn(env) ==
  \/ \E command \in Commands : _run_command(command, env)
  \/ \E r \in Runs, code \in ExitCodes : ChildExit(r, code)
  \/ \E r \in Runs, s \in Streams : read_output(r, s)
  \/ _append_log
  \/ _check_process_status
  \/ \E text \in FeedbackTexts : _submit_feedback(text, env)
  \/ closeEvent(env)
  \/ run(env)
  \/ clear_logs

Next == NextIn(PlainEnv)

Spec == Init /\ [][Next]_vars

\* The run lifecycle alone: the user enters a command before every trigger,
\* the child prints nothing and the log is not cleared.  The 100 ms timer
\* keeps firing while the event loop runs.
QuietNext ==
  \/ \E command \in Commands \ {<< >>} : _run_command(command, PlainEnv)
  \/ \E r \in Runs, code \in ExitCodes : ChildExit(r, code)
  \/ _check_process_status
  \/ \E text \in FeedbackTexts : _submit_feedback(text, PlainEnv)
  \/ closeEvent(PlainEnv)
  \/ run(PlainEnv)

FairSpec == Init /\ [][QuietNext]_vars /\ WF_vars(_check_process_status)

\* The log store and its console alone: chunks arrive, the user clears the
\* log, picks filters and toggles line numbers.
StoreNext ==
  \/ \E text \in Chunks : append_text(text)
  \/ clear_logs
  \/ \E level \in Filters : set_log_level_filter(level)
  \/ _toggle_line_numbers

StoreSpec == Init /\ [][StoreNext]_vars

\* The console and its search row alone: chunks arrive, the user picks a
\* filter, edits the search box and steps through the matches.
SearchNext ==
  \/ \E text \in Chunks \ {<<"passed">>} : append_text(text)
  \/ \E level \in {"All", "Info"} : set_log_level_filter(level)
  \/ \E search_text \in SearchTexts \cup {""} : _search_logs(search_text)
  \/ _search_next
  \/ _search_prev

SearchSpec == Init /\ [][SearchNext]_vars

\* The process tree alone: the shell of a run starts descendants, any of
\* them may exit on its own, and the operating system may refuse a kill.
TreeNext ==
  \/ _run_command(<<"echo">>, TreeEnv)
  \/ \E r \in Runs, code \in ExitCodes : ChildExit(r, code)
  \/ \E r \in Runs, i \in 1..MaxKids : KidExit(r, i)
  \/ _check_process_status
  \/ closeEvent(TreeEnv)

TreeSpec == Init /\ [][TreeNext]_vars

\* lines with keywords of two levels, of one level and of none, and a
\* line with a keyword in mixed case
KeywordLines ==
  {<<"error", " ", "warn", "\n">>,
   <<"ErRoR", "\n">>,
   <<"WARNING", " ", "passed", "\n">>,
   <<"Completed", " ", "note", "\n">>,
   <<"info", " ", "Failed", "\n">>,
   <<"INFO", "\n">>,
   <<"plain", "\n">>}

\* The classifier alone: lines with keywords arrive at _append_log.
ClassifyNext == \E text \in KeywordLines : append_text(text)

ClassifySpec == Init /\ [][ClassifyNext]_vars

\* The whole invocation: the run lifecycle, the end of the session and the
\* return of feedback_ui to its caller.
TopNext ==
  \/ QuietNext
  \/ \E output_file \in OutputFiles : feedback_ui(output_file)

TopSpec == Init /\ [][TopNext]_vars

\* lines of no level with a path, a URL whose host has a dot, a URL without
\* a dot, an integer and a timestamp
HighlightLines ==
  {<<"see", " ", "/tmp/a.txt", "\n">>,
   <<"open", " ", "http:", "//x.org/a.html", "\n">>,
   <<"open", " ", "http:", "//localhost/x", "\n">>,
   <<"took", " ", "42", " ", "ms", "\n">>,
   <<"at", " ", "12", ":", "34", ":", "56", "\n">>}

\* The highlighter alone: lines of no level arrive at _append_log.
HighlightNext == \E text \in HighlightLines : append_text(text)

HighlightSpec == Init /\ [][HighlightNext]_vars

\* The run button alone: runs are started and stopped, children exit, the
\* user saves the command as a template.
ButtonNext ==
  \/ \E command \in Commands : _run_command(command, PlainEnv)
  \/ \E r \in Runs, code \in ExitCodes : ChildExit(r, code)
  \/ _check_process_status
  \/ \E text \in Commands : _save_template(text)
  \/ restore_label

ButtonSpec == Init /\ [][ButtonNext]_vars

\* The process tree under an operating system that refuses no kill.
WillingEnv == [kids |-> TreeEnv.kids, kills |-> AllKillsWork]

OrphanNext ==
  \/ _run_command(<<"echo">>, WillingEnv)
  \/ \E r \in Runs, code \in ExitCodes : ChildExit(r, code)
  \/ \E r \in Runs, i \in 1..MaxKids : KidExit(r, i)
  \/ _check_process_status
  \/ closeEvent(WillingEnv)
  \/ run(WillingEnv)

OrphanSpec == Init /\ [][OrphanNext]_vars

TypeOK ==
  /\ phase \in {"loop", "closing", "returned", "raised"}
  /\ process \in {NoProcess} \cup Runs
  /\ status_timer \in BOOLEAN
  /\ kill_calls \subseteq Runs

\* ------------------------------------------------------ helpers of claims
\* chunk occurs in text as a contiguous run of tokens
Contains(text, chunk) ==
  \E i \in 0..(Len(text) - Len(chunk)) :
    SubSeq(text, i + 1, i + Len(chunk)) = chunk

IsBlank(command) ==
  command # << >> /\ \A i \in 1..Len(command) : IsSpace(command[i])

\* a run trigger taken with the given command
RunTrigger(command) == _run_command(command, PlainEnv)

\* ------------------------------------------------------------------ claims

\* every spawned run other than the held one was released
C1_Released ==
  \A r \in Spawned \ {process} :
    r \in kill_calls \/ procs[r].root = "reaped"

\* a step that puts a new child under the handle starts from a null handle
C1_SpawnOnlyWhenIdle ==
  process' \notin {process, NoProcess} =>
    /\ process = NoProcess
    /\ process' \notin Spawned
    /\ procs'[process'].root = "running"

\* C1: the spawn step is reached only with a null handle, so a new spawn
\* never overwrites a held handle; and every spawned run other than the
\* held one was released by a stop (kill_tree called on it) or by a
\* detected exit.
C1_OneRunAtATime == [](C1_Released) /\ [][C1_SpawnOnlyWhenIdle]_vars

C1_Witness == process = 2 /\ procs[1].root # "none" /\ 1 \in kill_calls

\* C2 (as claimed): a run trigger taken while a handle is held calls
\* kill_tree on that child, clears the handle and spawns nothing.
C2_Claim ==
  [][(Running /\ \E c \in Commands : RunTrigger(c)) =>
       /\ process \in kill_calls'
       /\ process' = NoProcess
       /\ Spawned' = Spawned]_vars

\* C3: the step that ends the session (submit or close) with a handle held
\* calls kill_tree on that child, and run() never returns a result with a
\* tracked child kill_tree was not called on.
C3_KilledAtEnd ==
  /\ [][(phase = "loop" /\ phase' = "closing" /\ HoldsProcess) =>
          process \in kill_calls']_vars
  /\ []((phase = "returned" /\ HoldsProcess) => process \in kill_calls)

C3_Witness ==
  /\ phase = "returned"
  /\ HoldsProcess
  /\ process \in kill_calls
  /\ procs[process].code = 0 - SIGKILL

\* C4 (as claimed): after a submit while a run was active, the result's logs
\* hold every line a reader had handed to the channel by then.
C4_Claim ==
  (feedback_result # None /\ submit_seen.run # NoProcess) =>
    \A s \in Streams : \A i \in 1..submit_seen.handed[s] :
      Contains(feedback_result.logs, ChildLine(submit_seen.run, s, i))

\* the held child has exited and the poll has not seen it yet
ExitPending ==
  HoldsProcess /\ procs[process].root = "exited" /\ phase = "loop"

\* the last run spawned, the only one that can be held
LastRun == Cardinality(Spawned)
LastRunReports == IF LastRun = 0 THEN 0 ELSE exit_reports[LastRun]

\* C5 (as claimed): once the held child has exited on its own, the poll
\* eventually clears the handle and exactly one exit-code line was appended
\* for that run.
C5_Claim ==
  ExitPending ~> (~HoldsProcess /\ LastRunReports = 1)

\* a run no longer held was released by the poll, with one exit-code line,
\* or by a run trigger, with none
C5_ReleasedByPollOrStop ==
  \A r \in Spawned \ {process} :
    exit_reports[r] = 1 \/ (r \in kill_calls /\ exit_reports[r] = 0)

\* the step that reports an exit: the held child had exited, the handle is
\* cleared, one chunk is appended, stored as a blank line and the exit line
C5_DetectStep ==
  \A r \in Runs :
    exit_reports'[r] # exit_reports[r] =>
      /\ exit_reports[r] = 0 /\ exit_reports'[r] = 1
      /\ process = r /\ process' = NoProcess
      /\ procs[r].root = "exited" /\ procs'[r].root = "reaped"
      /\ log_buffer' = Append(log_buffer, ExitedLine(procs[r].code))
      /\ Len(log_entries') = Len(log_entries) + 2
      /\ log_entries'[Len(log_entries')].line =
           <<"Process exited with code", " ", ToString(procs[r].code)>>

\* C5 (amended): once the held child has exited on its own, then unless a
\* run trigger, submit or close comes first, the poll eventually clears the
\* handle; the detecting step appends exactly one chunk, the exit-code line
\* with that run's exit code, no run gets a second exit-code line, and a
\* run is released only by that step or by a run trigger.
C5_Amended ==
  /\ ExitPending ~> \/ ~HoldsProcess /\ LastRunReports = 1
                    \/ LastRun \in kill_calls
                    \/ phase # "loop"
  /\ [](phase = "loop" => C5_ReleasedByPollOrStop)
  /\ [][C5_DetectStep]_vars

C5_Witness ==
  \E r \in Runs :
    /\ exit_reports[r] = 1
    /\ procs[r].root = "reaped"
    /\ procs[r].code \in ExitCodes
    /\ process = NoProcess
    /\ r \notin kill_calls

\* a start that spawned nothing although the command was not empty
C6_FailedStart ==
  /\ ~Running
  /\ \E c \in Commands : c # << >> /\ RunTrigger(c)
  /\ Spawned' = Spawned

\* C6: a start whose spawn fails leaves the handle null, creates no process,
\* reader or timer, lets no exception escape, and puts the failure into the
\* log as its last line.
C6_SpawnFailure ==
  [][C6_FailedStart =>
       /\ process = NoProcess /\ process' = NoProcess
       /\ UNCHANGED <<procs, handed, channel, status_timer, phase>>
       /\ run_button' = "&Run"
       /\ \E c \in Commands :
            log_buffer' = <<DollarLine(c), ErrorRunning(SpawnMessage)>>
       /\ Len(log_entries') = Len(log_entries) + 2
       /\ log_entries'[Len(log_entries')].line =
            rstrip(ErrorRunning(SpawnMessage))
       /\ log_entries'[Len(log_entries')].level = "Error"]_vars

C6_Witness ==
  /\ log_buffer # << >>
  /\ log_buffer[Len(log_buffer)] = ErrorRunning(SpawnMessage)
  /\ process = NoProcess

\* C7: a start with the empty command spawns nothing: no process, reader or
\* timer is created and the handle stays null.
C7_EmptyRejected ==
  [][(~Running /\ RunTrigger(<< >>)) =>
       /\ process' = NoProcess
       /\ UNCHANGED <<procs, handed, channel, status_timer, phase,
                      run_button>>]_vars

C7_Witness ==
  /\ log_buffer = <<PleaseEnter>>
  /\ process = NoProcess

C9_Claim ==
  [][(~Running /\ \E c \in Commands : IsBlank(c) /\ RunTrigger(c)) =>
       /\ process' = NoProcess
       /\ procs' = procs]_vars

\* line is a stored output line of run r's child
IsChildLineOf(r, line) ==
  \E s \in Streams, i \in 1..MaxEvents : line = rstrip(ChildLine(r, s, i))

\* C10: for every spawned run, the line "$ <command>" is stored before every
\* output line of that run's child, and the poll timer has been started.
C10_PromptFirst ==
  \A r \in Spawned :
    LET n == procs[r].cmd_line IN
    /\ n \in 1..Len(log_entries)
    /\ log_entries[n].line = rstrip(<<"$", " ">> \o procs[r].command)
    /\ \A i \in 1..Len(log_entries) :
         IsChildLineOf(r, log_entries[i].line) => n < i
    /\ status_timer

C10_Witness ==
  \E r \in Spawned : \E i \in 1..Len(log_entries) :
    /\ IsChildLineOf(r, log_entries[i].line)
    /\ procs[r].cmd_line < i
    /\ procs[r].command = <<"echo">>
    /\ status_timer

\* a step that assembles a FeedbackResult: submit, or run() returning after
\* a close without submit; Assembled is the value it makes
Assembles ==
  \/ feedback_result = None /\ feedback_result' # None
  \/ feedback_result = None /\ result = None /\ result' # None
Assembled == IF feedback_result' # None THEN feedback_result' ELSE result'

\* C11 (as claimed): the logs of an assembled result are the concatenation
\* of every chunk ingested since the last clear, earlier runs included.
C11_Claim ==
  [][Assembles => Assembled.logs = join(ingested)]_vars

\* the chunk a start attempt (a run trigger taken while no run is held)
\* begins the log buffer with
IsStartChunk(chunk) ==
  chunk = PleaseEnter \/ \E c \in Commands : chunk = DollarLine(c)

\* chunks from the last start attempt's first chunk on; all of them when
\* there was no start attempt
SinceLastStart(chunks) ==
  LET starts == {i \in 1..Len(chunks) : IsStartChunk(chunks[i])} IN
  IF starts = {} THEN chunks
  ELSE SubSeq(chunks, CHOOSE i \in starts : \A j \in starts : j <= i,
              Len(chunks))

\* C11 (amended): the logs of an assembled result are the concatenation of
\* the chunks ingested since the last clear or the last start attempt,
\* whichever came later, that attempt's own first line included; the lines
\* of earlier runs are not in the result.
C11_Amended ==
  [][Assembles => Assembled.logs = join(SinceLastStart(ingested))]_vars

C11_Witness ==
  /\ phase = "returned"
  /\ Cardinality(Spawned) = 2
  /\ Len(ingested) > Len(log_buffer)
  /\ result.logs = join(log_buffer)
  /\ result.logs # join(ingested)

C13_Claim ==
  [][\A t \in FeedbackTexts :
       _submit_feedback(t, PlainEnv) => feedback_result'.user_feedback = t]_vars

\* u is t without its leading and its trailing whitespace
Trimmed(t, u) ==
  /\ \E i, j \in 0..Len(t) :
       /\ i + j <= Len(t)
       /\ \A k \in 1..i : IsSpace(t[k])
       /\ \A k \in (Len(t) - j + 1)..Len(t) : IsSpace(t[k])
       /\ u = SubSeq(t, i + 1, Len(t) - j)
  /\ u # << >> => ~IsSpace(u[1]) /\ ~IsSpace(u[Len(u)])

\* C13 (amended): the result a submit of text t makes has, as its user
\* feedback, t without its leading and trailing whitespace.
C13_Amended ==
  [][\A t \in FeedbackTexts :
       _submit_feedback(t, PlainEnv) =>
         Trimmed(t, feedback_result'.user_feedback)]_vars

C13_Witness ==
  /\ feedback_result # None
  /\ feedback_result.user_feedback = <<"ok">>
  /\ Trimmed(<<" ", "ok", "\n">>, feedback_result.user_feedback)
  /\ phase = "closing"

\* C14: once assembled by a submit, the FeedbackResult never changes, and it
\* is the value run() returns, whatever was appended to the log, polled or
\* killed between the submit and the return.
C14_ResultFrozen ==
  /\ [][feedback_result # None => feedback_result' = feedback_result]_vars
  /\ []((phase = "returned" /\ feedback_result # None) =>
          result = feedback_result)

C14_Witness ==
  /\ phase = "returned"
  /\ feedback_result # None
  /\ result = feedback_result
  /\ result.logs # join(log_buffer)

\* the raw lines of the given entries, in order
LinesOf(entries) == [i \in 1..Len(entries) |-> entries[i].line]

\* the entries the step adds to the store
NewEntries == SubSeq(log_entries', Len(log_entries) + 1, Len(log_entries'))

\* C15: the stored lines carry the numbers 1, 2, 3, ... in insertion order,
\* and a stored line and its number are never removed or given out again.
C15_Numbered ==
  /\ [](\A i \in 1..Len(log_entries) : log_entries[i].line_number = i)
  /\ [][/\ Len(log_entries') >= Len(log_entries)
        /\ SubSeq(log_entries', 1, Len(log_entries)) = log_entries]_vars

C15_Witness ==
  /\ Len(ingested) = 1
  /\ Len(ingested[1]) > 2
  /\ Len(log_entries) = 5
  /\ log_entries[3].line = << >>
  /\ log_entries[5].line_number = 5

\* C16 (as claimed): clear_logs empties the store, and the first line
\* appended after it (as at the start of the session) gets number 1.
C16_Claim ==
  [][/\ clear_logs => log_entries' = << >>
     /\ (ingested = << >> /\ ingested' # << >>) =>
          NewEntries[1].line_number = 1]_vars

\* every line a reader emitted is queued in the channel or stored
C17_OutputKept ==
  \A r \in Runs, s \in Streams : \A i \in 1..handed[r][s] :
    \/ \E k \in 1..Len(channel) : channel[k] = ChildLine(r, s, i)
    \/ \E k \in 1..Len(log_entries) :
         log_entries[k].line = rstrip(ChildLine(r, s, i))

\* C17: clear_logs leaves the child handle, the processes, the readers'
\* progress, the queued output, the poll timer and the run button as they
\* are, and no line a reader emitted, before or after a clear, is lost.
C17_ClearLeavesRun ==
  /\ [][clear_logs =>
          UNCHANGED <<process, procs, handed, channel, status_timer,
                      run_button, phase>>]_vars
  /\ [](C17_OutputKept)

C17_Witness ==
  /\ HoldsProcess
  /\ procs[process].root = "running"
  /\ status_timer
  /\ ingested # << >>
  /\ \E s \in Streams : ingested[1] = ChildLine(process, s, 1)
  /\ log_buffer = ingested

\* text without one trailing line terminator
chomp(text) ==
  IF text # << >> /\ text[Len(text)] = "\n"
  THEN SubSeq(text, 1, Len(text) - 1)
  ELSE text

\* C18 (as claimed): _append_log(text) stores the lines of text split at
\* its newlines after removing one trailing newline, each line unchanged.
C18_Claim ==
  [][\A text \in Chunks :
       append_text(text) => LinesOf(NewEntries) = split_nl(chomp(text))]_vars

\* the entries of the given level or of level Other, all of them for All
RECURSIVE Filtered(_, _)
Filtered(entries, level) ==
  IF entries = << >> THEN << >>
  ELSE IF level = "All" \/ Head(entries).level \in {level, "Other"}
       THEN <<Head(entries)>> \o Filtered(Tail(entries), level)
       ELSE Filtered(Tail(entries), level)

\* the raw lines of the blocks shown in the console
ShownLines(text) == [i \in 1..Len(text) |-> text[i].html.line]

\* C19: when the user picks a level, the console shows exactly the stored
\* lines of that level or of level Other (every stored line for All), in
\* stored order; a chunk appended under a filter adds exactly its lines of
\* that level or of level Other.
C19_FilteredView ==
  /\ [][log_level_filter' # log_level_filter =>
          ShownLines(log_text') =
            LinesOf(Filtered(log_entries, log_level_filter'))]_vars
  /\ [][(\E text \in Chunks : append_text(text)) =>
          ShownLines(log_text') =
            ShownLines(log_text)
              \o LinesOf(Filtered(NewEntries, log_level_filter))]_vars

C19_Witness ==
  /\ log_level_filter = "Error"
  /\ Len(log_text) < Len(log_entries)
  /\ \E i, j \in 1..Len(log_text) :
       /\ i < j
       /\ log_text[i].html.colour = LevelColour["Error"]
       /\ log_text[j].html.colour = LevelColour["Other"]
  /\ ShownLines(log_text) = LinesOf(Filtered(log_entries, "Error"))

\* C20 (as claimed): after one or more appends and nothing else, the export
\* text without its trailing terminator, split at its line terminators, is
\* the sequence of stored raw lines.
C20_Claim ==
  (events > 0 /\ Len(ingested) = events) =>
    split_nl(chomp(join(log_buffer))) = LinesOf(log_entries)

\* a step of one of the three search handlers with a search text
SearchStep ==
  /\ search_entry' # ""
  /\ \/ _search_next
     \/ _search_prev
     \/ \E search_text \in SearchTexts : _search_logs(search_text)

\* some stored line contains the text
StoredHit(search_text) ==
  \E k \in 1..Len(log_entries) : \E i \in 1..Len(log_entries[k].line) :
    log_entries[k].line[i] = search_text

\* C21 (as claimed): a search reports a match whenever some stored line
\* contains the text, and Not found only when none does.
C21_Claim ==
  [][(SearchStep /\ StoredHit(search_entry')) =>
       search_result_label' # "Not found"]_vars

\* the blocks shown in the console that hold the text
ShownHits(search_text) ==
  {k \in 1..Len(log_text) : Matches(log_text[k], search_text)}

\* the blocks a scan from the cursor passes before it reaches an end
Ahead(cursor) == {k \in 1..Len(log_text) : k > cursor.block}
Behind(cursor) ==
  {k \in 1..Len(log_text) :
     IF cursor.selected THEN k < cursor.block ELSE k <= cursor.block}

\* the outcome of a scan over the blocks in todo, nearest hit first, then
\* once over the whole console from the opposite end
ScanOutcome(todo, nearest(_, _)) ==
  LET hits == ShownHits(search_entry')
      b == text_cursor'.block IN
  /\ search_result_label' \in {"found", "found (wrapped)", "Not found"}
  /\ search_result_label' = "Not found" <=> hits = {}
  /\ search_result_label' = "found" <=> hits \cap todo # {}
  /\ search_result_label' = "found" =>
       /\ text_cursor'.selected
       /\ b \in hits \cap todo
       /\ \A h \in hits \cap todo : nearest(b, h)
  /\ search_result_label' = "found (wrapped)" =>
       /\ text_cursor'.selected
       /\ b \in hits
       /\ \A h \in hits : nearest(b, h)

Before(a, b) == a <= b
After(a, b) == a >= b

\* C21 (amended): a search scans the blocks shown in the console, ignoring
\* letter case, from the console cursor in its direction (a changed search
\* text: from the start, forward), selects the nearest match, wraps to the
\* opposite end once when there is none, and reports Not found exactly
\* when no shown block holds the text.
C21_Amended ==
  /\ [][(_search_next /\ search_entry # "") =>
          ScanOutcome(Ahead(text_cursor), Before)]_vars
  /\ [][(_search_prev /\ search_entry # "") =>
          ScanOutcome(Behind(text_cursor), After)]_vars
  /\ [][(\E search_text \in SearchTexts : _search_logs(search_text)) =>
          /\ ScanOutcome(Ahead(CursorStart), Before)
          /\ search_result_label' # "found (wrapped)"]_vars

C21_Witness ==
  /\ search_result_label = "found (wrapped)"
  /\ search_entry = "ERROR"
  /\ text_cursor.selected
  /\ text_cursor.block < Len(log_text)
  /\ log_text[text_cursor.block].html.line = <<"error">>

\* position of the i-th line of stream s of run r in the store, 0 if absent
StoredAt(r, s, i) ==
  LET hits == {k \in 1..Len(log_entries) :
                 log_entries[k].line = rstrip(ChildLine(r, s, i))}
  IN IF hits = {} THEN 0 ELSE CHOOSE k \in hits : \A m \in hits : k <= m

\* the stored line is a line of a child: ChildLine less its newline
IsOutput(line) == Len(line) = 4 /\ line[1] = "out"
SameStream(a, b) == a[2] = b[2] /\ a[3] = b[3]
\* its number within its stream
LineNo(line) == CHOOSE i \in 1..MaxEvents : ToString(i) = line[4]

\* C22: within one stream of one run, lines are ingested in the order the
\* reader emitted them: the stored i-th line of a stream has been emitted,
\* and exactly the i - 1 earlier lines of that stream are stored before it.
C22_StreamOrder ==
  \A k \in 1..Len(log_entries) :
    LET line == log_entries[k].line IN
    IsOutput(line) =>
      LET earlier == {m \in 1..(k - 1) :
                        /\ IsOutput(log_entries[m].line)
                        /\ SameStream(log_entries[m].line, line)}
      IN /\ \E r \in Spawned, s \in Streams :
              /\ line = rstrip(ChildLine(r, s, LineNo(line)))
              /\ LineNo(line) <= handed[r][s]
         /\ Cardinality(earlier) = LineNo(line) - 1
         /\ \A m \in earlier : LineNo(log_entries[m].line) < LineNo(line)

\* two lines of one stream stored while a line of the other stream was
\* ingested between them
C22_Witness ==
  \E r \in Runs, s \in Streams, t \in Streams :
    /\ s # t
    /\ StoredAt(r, s, 1) # 0
    /\ StoredAt(r, s, 1) < StoredAt(r, t, 1)
    /\ StoredAt(r, t, 1) < StoredAt(r, s, 2)

\* the step is a reader thread handing over a line
ReaderStep == \E r \in Runs, s \in Streams : read_output(r, s)

\* C23: a reader thread changes neither the log store nor any widget; a
\* child's line enters the store only in a step that takes it from the head
\* of the channel (the slot running in the controller thread).
C23_ThroughChannel ==
  [][/\ ReaderStep =>
          UNCHANGED <<log_buffer, log_entries, log_text, text_cursor,
                      run_button, search_entry, search_result_label,
                      log_level_filter, show_line_numbers>>
     /\ \A k \in (Len(log_entries) + 1)..Len(log_entries') :
          (\E r \in Runs : IsChildLineOf(r, log_entries'[k].line)) =>
            /\ ~ReaderStep
            /\ channel # << >>
            /\ channel' = Tail(channel)
            /\ log_entries'[k].line = rstrip(Head(channel))]_vars

\* a child's line has been ingested while the next one waits in the channel
C23_Witness ==
  /\ channel # << >>
  /\ \E r \in Runs : \E k \in 1..Len(log_entries) :
       /\ IsChildLineOf(r, log_entries[k].line)
       /\ handed[r]["stdout"] + handed[r]["stderr"] >= 2

\* run r was started on an empty store, its child wrote the one line
\* ChildLine(r, s, 1) and exited with code 0, and the poll has reported the
\* exit
OneLineRunReported(r, s) ==
  /\ procs[r].cmd_line = 1
  /\ handed[r] = [t \in Streams |-> IF t = s THEN 1 ELSE 0]
  /\ procs[r].root = "reaped"
  /\ procs[r].code = 0
  /\ exit_reports[r] = 1

\* C24 (as claimed): when the poll has reported the exit of such a run, the
\* store holds "$ <command>" at line number 1 and the child's line at line
\* number 2, classified Other.
C24_Claim ==
  \A r \in Spawned, s \in Streams :
    OneLineRunReported(r, s) =>
      /\ Len(log_entries) >= 2
      /\ log_entries[1].line = rstrip(DollarLine(procs[r].command))
      /\ log_entries[1].line_number = 1
      /\ log_entries[2].line = rstrip(ChildLine(r, s, 1))
      /\ log_entries[2].line_number = 2
      /\ log_entries[2].level = "Other"

\* kill_tree has been called
Killed == kill_trace.run # NoProcess

\* C25 (as claimed): kill_tree never raises, whatever the state of the tree.
C25_Claim == Killed => ~kill_trace.raised

\* positions of the calls of op in the last kill_tree call
Calls(op) ==
  {n \in 1..Len(kill_trace.attempts) : kill_trace.attempts[n].op = op}

\* the descendants alive under a live root when kill_tree was called
Enumerated ==
  {i \in 1..Len(kill_trace.before.kids) :
     /\ kill_trace.before.root = "running"
     /\ kill_trace.before.kids[i] = "running"}

\* C26: a kill_tree call that found the root calls kill() on every
\* enumerated descendant, then once on the root, after all of them, whether
\* or not the earlier kills failed.
C26_KillPass ==
  (Killed /\ ~kill_trace.raised) =>
    LET a == kill_trace.attempts IN
    /\ \A i \in Enumerated : \E n \in Calls("kill") : a[n].target = i
    /\ \E m \in Calls("kill") :
         /\ a[m].target = Root
         /\ \A n \in Calls("kill") \ {m} : a[n].target # Root /\ n < m

\* the kill of the first descendant failed; the second descendant and the
\* root were killed all the same
C26_Witness ==
  /\ Killed
  /\ Enumerated = {1, 2}
  /\ \E n \in Calls("kill") :
       kill_trace.attempts[n].target = 1 /\ ~kill_trace.attempts[n].ok
  /\ kill_trace.after.kids = <<"running", "dead">>
  /\ kill_trace.after.root = "exited"
  /\ kill_trace.after.code = 0 - SIGKILL

\* the processes of the tree alive after the kill pass of the last call
AliveAfterKills ==
  {t \in Enumerated \cup {Root} :
     /\ t = Root => kill_trace.before.root = "running"
     /\ \E n \in Calls("kill") :
          kill_trace.attempts[n].target = t /\ ~kill_trace.attempts[n].ok}

\* C27 (as claimed): the last loop of kill_tree calls terminate() on every
\* process of the tree that is alive after the kill pass, the ones whose
\* kill() failed included.
C27_Claim ==
  (Killed /\ ~kill_trace.raised) =>
    \A t \in AliveAfterKills :
      \E n \in Calls("terminate") : kill_trace.attempts[n].target = t

\* C28 (as claimed): when kill_tree has returned for a running child, the
\* root is not running and no descendant of it is alive.
C28_Claim ==
  (Killed /\ ~kill_trace.raised /\ kill_trace.before.root = "running") =>
    /\ kill_trace.after.root # "running"
    /\ \A i \in 1..Len(kill_trace.after.kids) :
         kill_trace.after.kids[i] # "running"

\* C29 (as claimed): the poll timer fires only while a run is active: with
\* no active handle (after a stop, after a detected exit, before the first
\* run) no poll timer is started.
C29_Claim == ~HoldsProcess => ~status_timer

\* the levels with keywords, highest priority first
Priority == <<"Error", "Warning", "Success", "Info">>
Keywords ==
  [Error |-> ErrorWords, Warning |-> WarningWords, Success |-> SuccessWords,
   Info |-> InfoWords]

\* ranks of the levels a keyword of which occurs in line
Present(line) ==
  {n \in 1..Len(Priority) :
     \E i \in 1..Len(line) : line[i] \in Keywords[Priority[n]]}

ErrorKeywords == {"error", "failed", "exception"}

\* C31 (as claimed): every stored line that holds an Error keyword as a
\* whole word, in any letter casing, has the level Error.
C31_Claim ==
  \A k \in 1..Len(log_entries) :
    (\E i \in 1..Len(log_entries[k].line) :
       casefold(log_entries[k].line[i]) \in ErrorKeywords) =>
      log_entries[k].level = "Error"

\* the text a JSON string stands for
json_unescape(t) ==
  IF t = "\\n" THEN "\n" ELSE IF t = "\\t" THEN "\t" ELSE t
json_text(j) == [i \in 1..(Len(j) - 2) |-> json_unescape(j[i + 1])]

ResultKeys == {"logs", "user_feedback"}

Spanned(markup, kind, first) ==
  \E p \in 1..(Len(markup) - 1) :
    markup[p] = SpanOpen[kind] /\ markup[p + 1] \in first

\* no span opens inside another span
NoNesting(markup) ==
  \A p, q \in 1..Len(markup) :
    (p < q /\ IsOpen(markup[p]) /\ IsOpen(markup[q])) =>
      \E c \in (p + 1)..(q - 1) : markup[c] = SpanClose

UrlAt(line, i) ==
  i < Len(line) /\ line[i] \in Schemes /\ line[i + 1] \in SlashPieces
TimeAt(line, i) ==
  /\ i + 4 <= Len(line)
  /\ line[i] \in TwoDigits /\ line[i + 1] = ":"
  /\ line[i + 2] \in TwoDigits /\ line[i + 3] = ":"
  /\ line[i + 4] \in TwoDigits

\* C33 (as claimed): in a shown line of no level every URL is in a URL span,
\* every timestamp in a timestamp span, every path outside a URL in a path
\* span, every integer outside a timestamp in a number span, and no span
\* lies inside another.
C33_Claim ==
  \A k \in 1..Len(log_text) :
    LET line == log_text[k].html.line
        markup == log_text[k].html.markup
        places == 1..Len(line)
    IN log_text[k].html.colour = LevelColour["Other"] =>
         /\ NoNesting(markup)
         /\ (\E i \in places : UrlAt(line, i)) =>
              Spanned(markup, "url", Schemes)
         /\ (\E i \in places : TimeAt(line, i)) =>
              Spanned(markup, "time", TwoDigits)
         /\ (\E i \in places :
               line[i] \in PathPieces /\ ~UrlAt(line, i - 1)) =>
              Spanned(markup, "path", PathPieces)
         /\ (\E i \in places :
               /\ line[i] \in Digits
               /\ \A j \in {i - 4, i - 2, i} : ~TimeAt(line, j)) =>
              Spanned(markup, "number", Digits)

\* chunk is a line some reader of run r emitted
IsChunkOf(r, chunk) ==
  \E s \in Streams, i \in 1..MaxEvents : chunk = ChildLine(r, s, i)

\* C34 (as claimed): while a run started after a stopped run is active, every
\* child line in the export buffer was emitted by that run's readers.
C34_Claim ==
  (HoldsProcess /\ process > 1 /\ (process - 1) \in kill_calls) =>
    \A k \in 1..Len(log_buffer) : \A r \in Runs :
      IsChunkOf(r, log_buffer[k]) => r = process

\* the number of lines _append_log stored for the given chunks
RECURSIVE CountLines(_)
CountLines(chunks) ==
  IF chunks = << >> THEN 0
  ELSE Len(split_nl(rstrip(Head(chunks)))) + CountLines(Tail(chunks))

\* the entries stored since the last clear_logs
SinceClear ==
  SubSeq(log_entries, Len(log_entries) - CountLines(ingested) + 1,
         Len(log_entries))

\* C35 (as claimed): the console shows no line appended before the last
\* clear_logs: what it shows are lines stored since then.
C35_Claim ==
  /\ Len(log_text) <= Len(SinceClear)
  /\ \A k \in 1..Len(log_text) :
       \E n \in 1..Len(SinceClear) : log_text[k].html.line = SinceClear[n].line

\* clear_logs has removed nothing that is stored
NothingCleared == CountLines(ingested) = Len(log_entries)

\* C36: as long as nothing was cleared, the console shows exactly the stored
\* entries that pass the current filter, in stored order, each with its own
\* line number in front when line numbers are on; so appending line by line
\* and redrawing everything give the same console.
C36_Rendering ==
  NothingCleared =>
    LET shown == Filtered(log_entries, log_level_filter) IN
    /\ Len(log_text) = Len(shown)
    /\ \A k \in 1..Len(log_text) :
         /\ log_text[k].html.line = shown[k].line
         /\ log_text[k].prefix =
              IF show_line_numbers THEN shown[k].line_number ELSE 0

\* lines were appended under a filter, then line numbers were switched on
\* and more lines appended: a hidden line leaves a gap in the numbers shown
C36_Witness ==
  /\ NothingCleared
  /\ show_line_numbers
  /\ log_level_filter = "Error"
  /\ Len(log_text) >= 2
  /\ Len(log_text) < Len(log_entries)
  /\ \E k \in 1..(Len(log_text) - 1) :
       log_text[k + 1].prefix > log_text[k].prefix + 1

RunLabels == {"&Run", "&Run (Ctrl+R / F5)"}

\* C37 (as claimed): the run button shows the Stop label only while a child
\* handle is held and a Run label only while none is held.
C37_Claim ==
  /\ run_button = "Sto&p" => HoldsProcess
  /\ run_button \in RunLabels => ~HoldsProcess

\* some process of the tree of run r is alive
TreeAlive(r) ==
  \/ procs[r].root = "running"
  \/ \E i \in 1..Len(procs[r].kids) : procs[r].kids[i] = "running"

\* C38 (as claimed): once the poll has detected the exit of a run's root, and
\* whenever no handle is held, no process of a spawned run's tree is alive.
C38_Claim ==
  /\ \A r \in Spawned : exit_reports[r] > 0 => ~TreeAlive(r)
  /\ ~HoldsProcess => \A r \in Spawned : ~TreeAlive(r)

\* C39 (as claimed): an exit-code line is appended at most once for a run,
\* and only for a run whose child exited on its own, never for one that
\* kill_tree ended.
C39_Claim ==
  \A r \in Spawned :
    /\ exit_reports[r] <= 1
    /\ exit_reports[r] = 1 => procs[r].code \in ExitCodes

====
